---- MODULE Spec2Model ----
\* SyspassClient (libsyspass.py): a JSON-RPC client of the sysPass vault.
\* Every method builds one request carrying the instance's request id,
\* increments the id, posts the request, decodes the answer and interprets
\* it.  The model runs two client instances built with the same credentials;
\* a call is given to one of them or to both, and the instances it is given
\* to receive the same HTTP answer.
EXTENDS Integers, Sequences, FiniteSets, TLC

\* ------------------------------------------------------------------ bounds
MaxCalls == 3          \* calls started on one instance
MaxList  == 2          \* entries in the list of a search answer

\* ------------------------------------------------------------ input domains
Inst    == {1, 2}
Names   == {"db", "DB", "db2"}
Ids     == {1, 2}
ItemIds == {-1, 0, 1, 2}
ResultCodes == {-1, 0, 1}
Creds   == { [API_KEY |-> "key1", API_URL |-> "https://vault1/api.php", API_ACC_TOKPWD |-> "tok1"],
             [API_KEY |-> "key2", API_URL |-> "https://vault2/api.php", API_ACC_TOKPWD |-> "tok2"] }

\* Python's None, as a default argument and as a JSON null
None == "None"

\* str.upper() on the names of the model
Upper(s) == CASE s = "db"  -> "DB"
              [] s = "DB"  -> "DB"
              [] s = "db2" -> "DB2"
              [] OTHER     -> s

\* 'k' in obj, for a decoded JSON object
Has(obj, k) == k \in DOMAIN obj

\* ------------------------------------------------------ outcomes of a call
NoOutcome == [kind |-> "running"]
ReturnNone == [kind |-> "return None"]
ReturnEntry(e) == [kind |-> "return entry", entry |-> e]
ReturnList(l) == [kind |-> "return list", list |-> l]
ReturnResult(r) == [kind |-> "return result", result |-> r]
ReturnObject(o) == [kind |-> "return object", object |-> o]
ReturnPassword(p) == [kind |-> "return password", password |-> p]
\* raise AnsibleError('<prefix>%s' % (req)): the failure carries the response
AnsibleErrorReq(prefix, req) == [kind |-> "AnsibleError", prefix |-> prefix, carried |-> "req", req |-> req]
\* raise AnsibleError('<prefix>%s' % (req['error'])): it carries the member only
AnsibleErrorMember(prefix, err) == [kind |-> "AnsibleError", prefix |-> prefix, carried |-> "req['error']", error |-> err]
\* obj[k] on a dict without the key k
KeyError(k) == [kind |-> "KeyError", key |-> k]
\* req.json() on a body that is not JSON
ValueError == [kind |-> "ValueError"]
\* requests.post() that could not reach the server
ConnectionError == [kind |-> "ConnectionError"]

\* ------------------------------------------------------- HTTP answers
RECURSIVE ListsUpTo(_)
ListsUpTo(n) == IF n = 0 THEN { <<>> }
                ELSE LET shorter == ListsUpTo(n - 1)
                     IN shorter \cup { Append(l, [name |-> nm]) : l \in { s \in shorter : Len(s) = n - 1 }, nm \in Names }
EntryLists == ListsUpTo(MaxList)
ErrorMember == [code |-> -32603, message |-> "Internal error"]
BareResult == [resultMessage |-> "msg"]
SearchResults == { [count |-> c, result |-> l] : c \in 0..MaxList, l \in EntryLists }
ViewResults == { [count |-> c, result |-> o] : c \in {0, 1},
                 o \in { [name |-> "db", password |-> "s3cret"], [name |-> "db"] } }
CreateResults == { [itemId |-> n, resultMessage |-> "msg"] : n \in ItemIds }
DeleteResults == { [resultCode |-> n, resultMessage |-> "msg"] : n \in ResultCodes }
\* a decoded answer: any of the results of the family, or none, with or
\* without an 'error' member
Answers(results) ==
    LET rs == results \cup {BareResult}
    IN  { [jsonrpc |-> "2.0"], [jsonrpc |-> "2.0", error |-> ErrorMember] }
        \cup { [jsonrpc |-> "2.0", result |-> r] : r \in rs }
        \cup { [jsonrpc |-> "2.0", result |-> r, error |-> ErrorMember] : r \in rs }
NotJson == [html |-> "<html>502 Bad Gateway</html>"]
NoResp == [none |-> TRUE]
IsJson(body) == Has(body, "jsonrpc")

SearchOps == {"AccountSearch", "CategorySearch", "ClientSearch", "TagSearch", "UserGroupSearch"}
ViewOps   == {"AccountViewpass", "AccountView"}
CreateOps == {"AccountCreate", "CategoryCreate", "ClientCreate", "TagCreate", "UserGroupCreate"}
DeleteOps == {"AccountDelete", "CategoryDelete", "ClientDelete", "TagDelete", "UserGroupDelete"}
Bodies(op) == {NotJson} \cup
              (CASE op \in SearchOps -> Answers(SearchResults)
                 [] op \in ViewOps   -> Answers(ViewResults)
                 [] op \in CreateOps -> Answers(CreateResults)
                 [] op \in DeleteOps -> Answers(DeleteResults)
                 [] OTHER            -> Answers({[result |-> "backup.tar.gz", resultCode |-> 0]}))

VARIABLES ctor,     \* the credentials given to SyspassClient(...)
          client,   \* client[i]: the fields of instance i
          started,  \* started[i]: calls started on instance i
          posted,   \* posted[i]: the (url, id) of every request instance i posted
          posts,    \* posts[i]: requests posted by the current call of instance i
          pc,       \* position of the current call
          active,   \* the instances the current call was given to
          call,     \* the method called and its arguments
          data,     \* data[i]: the request instance i built
          resp,     \* the body of the HTTP answer
          outcome   \* outcome[i]: how the call ended on instance i
vars == <<ctor, client, started, posted, posts, pc, active, call, data, resp, outcome>>

NoData == [none |-> TRUE]
NoCall == [op |-> "none"]

\* SyspassClient.__init__
SyspassClient(API_KEY, API_URL, API_ACC_TOKPWD) ==
    [API_KEY |-> API_KEY, API_URL |-> API_URL, API_ACC_TOKPWD |-> API_ACC_TOKPWD, rId |-> 1]

Init ==
    /\ ctor \in Creds
    /\ client = [i \in Inst |-> SyspassClient(ctor.API_KEY, ctor.API_URL, ctor.API_ACC_TOKPWD)]
    /\ started = [i \in Inst |-> 0]
    /\ posted = [i \in Inst |-> <<>>]
    /\ posts = [i \in Inst |-> 0]
    /\ pc = "idle"
    /\ active = {}
    /\ call = NoCall
    /\ data = [i \in Inst |-> NoData]
    /\ resp = NoResp
    /\ outcome = [i \in Inst |-> NoOutcome]

\* ------------------------------------------------- the requests ("data")
AccountSearch_data(self, text, count, categoryId, clientId) ==
    [jsonrpc |-> "2.0", method |-> "account/search",
     params |-> [authToken |-> self.API_KEY, text |-> text, count |-> count,
                 categoryId |-> categoryId, clientId |-> clientId],
     id |-> self.rId]

AccountViewpass_keyAsTokenPass(self, uId) ==
    [jsonrpc |-> "2.0", method |-> "account/viewPass",
     params |-> [authToken |-> self.API_KEY, id |-> uId, tokenPass |-> self.API_KEY],
     id |-> self.rId]

AccountViewpass_data(self, uId) ==
    [jsonrpc |-> "2.0", method |-> "account/viewPass",
     params |-> [authToken |-> self.API_KEY, id |-> uId, tokenPass |-> self.API_ACC_TOKPWD],
     id |-> self.rId]

AccountCreate_data(self, name, categoryId, clientId, password, login, url, tags, notes, private, privateGroup, userGroupId, expireDate, parentId) ==
    [jsonrpc |-> "2.0", method |-> "account/create",
     params |-> [authToken |-> self.API_KEY, tokenPass |-> self.API_ACC_TOKPWD, name |-> name,
                 categoryId |-> categoryId, clientId |-> clientId, userGroupId |-> userGroupId,
                 pass |-> password, login |-> login, url |-> url, tagsId |-> tags, notes |-> notes,
                 private |-> private, privateGroup |-> privateGroup, expireDate |-> expireDate,
                 parentId |-> parentId],
     id |-> self.rId]

AccountDelete_data(self, uId) ==
    [jsonrpc |-> "2.0", method |-> "account/delete",
     params |-> [authToken |-> self.API_KEY, id |-> uId, tokenPass |-> self.API_ACC_TOKPWD],
     id |-> self.rId]

AccountView_data(self, uId) ==
    [jsonrpc |-> "2.0", method |-> "account/view",
     params |-> [authToken |-> self.API_KEY, id |-> uId],
     id |-> self.rId]

CategorySearch_data(self, text, count) ==
    [jsonrpc |-> "2.0", method |-> "category/search",
     params |-> [authToken |-> self.API_KEY, text |-> text, count |-> count],
     id |-> self.rId]

CategoryCreate_data(self, name, description) ==
    [jsonrpc |-> "2.0", method |-> "category/create",
     params |-> [authToken |-> self.API_KEY, name |-> name, description |-> description],
     id |-> self.rId]

CategoryDelete_data(self, Id) ==
    [jsonrpc |-> "2.0", method |-> "category/delete",
     params |-> [authToken |-> self.API_KEY, id |-> Id],
     id |-> self.rId]

ClientSearch_rIdInParams(self, text, count) ==
    [jsonrpc |-> "2.0", method |-> "client/search",
     params |-> [authToken |-> self.API_KEY, text |-> text, count |-> self.rId],
     id |-> self.rId]

ClientSearch_data(self, text, count) ==
    [jsonrpc |-> "2.0", method |-> "client/search",
     params |-> [authToken |-> self.API_KEY, text |-> text, count |-> count],
     id |-> self.rId]

ClientCreate_data(self, name, description, Global) ==
    [jsonrpc |-> "2.0", method |-> "client/create",
     params |-> [authToken |-> self.API_KEY, name |-> name, description |-> description,
                 global |-> Global],
     id |-> self.rId]

ClientDelete_data(self, cId) ==
    [jsonrpc |-> "2.0", method |-> "client/delete",
     params |-> [authToken |-> self.API_KEY, id |-> cId],
     id |-> self.rId]

TagCreate_data(self, name) ==
    [jsonrpc |-> "2.0", method |-> "tag/create",
     params |-> [authToken |-> self.API_KEY, name |-> name],
     id |-> self.rId]

TagSearch_data(self, text, count) ==
    [jsonrpc |-> "2.0", method |-> "tag/search",
     params |-> [authToken |-> self.API_KEY, text |-> text, count |-> count],
     id |-> self.rId]

TagDelete_data(self, tId) ==
    [jsonrpc |-> "2.0", method |-> "tag/delete",
     params |-> [authToken |-> self.API_KEY, id |-> tId],
     id |-> self.rId]

UserGroupCreate_data(self, name, description) ==
    [jsonrpc |-> "2.0", method |-> "userGroup/create",
     params |-> [authToken |-> self.API_KEY, name |-> name, description |-> description],
     id |-> self.rId]

UserGroupSearch_data(self, text, count) ==
    [jsonrpc |-> "2.0", method |-> "userGroup/search",
     params |-> [authToken |-> self.API_KEY, text |-> text, count |-> count],
     id |-> self.rId]

UserGroupDelete_data(self, ugId) ==
    [jsonrpc |-> "2.0", method |-> "userGroup/delete",
     params |-> [authToken |-> self.API_KEY, id |-> ugId],
     id |-> self.rId]

Backup_data(self) ==
    [jsonrpc |-> "2.0", method |-> "backup",
     params |-> [authToken |-> self.API_KEY],
     id |-> self.rId]

\* ---------------------------------------- the interpretation of the answer

\* AccountSearch: for res in req['result']['result'], from the k-th entry on
RECURSIVE AccountSearch_for(_, _, _)
AccountSearch_for(req, text, k) ==
    IF k > Len(req.result.result) THEN ReturnNone
    ELSE IF req.result.result[k].name = text
         THEN ReturnEntry(req.result.result[1])
         ELSE AccountSearch_for(req, text, k + 1)

AccountSearch_filtersMatchAll(self, req, text, matchAll) ==
    IF ~Has(req, "result") THEN KeyError("result")
    ELSE IF ~Has(req.result, "count") THEN KeyError("count")
    ELSE IF req.result.count > 0
         THEN IF matchAll = None
              THEN AccountSearch_for(req, text, 1)
              ELSE ReturnList(SelectSeq(req.result.result, LAMBDA res : res.name = text))
         ELSE IF Has(req, "error")
              THEN AnsibleErrorReq("AccountSearch Error : ", req)
              ELSE ReturnNone

AccountSearch_check(self, req, text, matchAll) ==
    IF ~Has(req, "result") THEN KeyError("result")
    ELSE IF ~Has(req.result, "count") THEN KeyError("count")
    ELSE IF req.result.count > 0
         THEN IF matchAll = None
              THEN AccountSearch_for(req, text, 1)
              ELSE ReturnList(req.result.result)
         ELSE IF Has(req, "error")
              THEN AnsibleErrorReq("AccountSearch Error : ", req)
              ELSE ReturnNone

AccountViewpass_check(self, req) ==
    IF ~Has(req, "result") THEN KeyError("result")
    ELSE IF ~Has(req.result, "count") THEN KeyError("count")
    ELSE IF req.result.count > 0
         THEN IF Has(req.result.result, "password")
              THEN ReturnPassword(req.result.result.password)
              ELSE KeyError("password")
         ELSE AnsibleErrorReq("AccountViewpass Error : ", req)

AccountView_check(self, req) ==
    IF ~Has(req, "result") THEN KeyError("result")
    ELSE IF ~Has(req.result, "count") THEN KeyError("count")
    ELSE IF req.result.count > 0
         THEN ReturnObject(req.result.result)
         ELSE AnsibleErrorReq("AccountView Error : ", req)

\* CategorySearch: for res in req['result']['result'], from the k-th entry on
RECURSIVE CategorySearch_for(_, _, _)
CategorySearch_for(req, text, k) ==
    IF k > Len(req.result.result) THEN ReturnNone
    ELSE IF req.result.result[k].name = text
         THEN ReturnEntry(req.result.result[1])
         ELSE CategorySearch_for(req, text, k + 1)

CategorySearch_check(self, req, text) ==
    IF ~Has(req, "result") THEN KeyError("result")
    ELSE IF ~Has(req.result, "count") THEN KeyError("count")
    ELSE IF req.result.count > 0
         THEN CategorySearch_for(req, text, 1)
         ELSE IF Has(req, "error")
              THEN AnsibleErrorMember("CategorySearch Error : ", req.error)
              ELSE ReturnNone

\* ClientSearch: for res in req['result']['result'], from the k-th entry on
RECURSIVE ClientSearch_for(_, _, _)
ClientSearch_for(req, text, k) ==
    IF k > Len(req.result.result) THEN ReturnNone
    ELSE IF Upper(req.result.result[k].name) = Upper(text)
         THEN ReturnEntry(req.result.result[1])
         ELSE ClientSearch_for(req, text, k + 1)

ClientSearch_check(self, req, text) ==
    IF ~Has(req, "result") THEN KeyError("result")
    ELSE IF ~Has(req.result, "count") THEN KeyError("count")
    ELSE IF req.result.count > 0
         THEN ClientSearch_for(req, text, 1)
         ELSE IF Has(req, "error")
              THEN AnsibleErrorMember("ClientSearch Error : ", req.error)
              ELSE ReturnNone

\* TagSearch: for res in req['result']['result'], from the k-th entry on
RECURSIVE TagSearch_for(_, _, _)
TagSearch_for(req, text, k) ==
    IF k > Len(req.result.result) THEN ReturnNone
    ELSE IF Upper(req.result.result[k].name) = Upper(text)
         THEN ReturnEntry(req.result.result[1])
         ELSE TagSearch_for(req, text, k + 1)

TagSearch_raisesWhenAbsent(self, req, text) ==
    IF ~Has(req, "result") THEN KeyError("result")
    ELSE IF ~Has(req.result, "count") THEN KeyError("count")
    ELSE IF req.result.count > 0
         THEN TagSearch_for(req, text, 1)
         ELSE AnsibleErrorReq("TagSearch Error : ", req)

TagSearch_check(self, req, text) ==
    IF ~Has(req, "result") THEN KeyError("result")
    ELSE IF ~Has(req.result, "count") THEN KeyError("count")
    ELSE IF req.result.count > 0
         THEN TagSearch_for(req, text, 1)
         ELSE IF Has(req, "error")
              THEN AnsibleErrorMember("TagSearch Error : ", req.error)
              ELSE ReturnNone

\* UserGroupSearch: for res in req['result']['result'], from the k-th entry on
RECURSIVE UserGroupSearch_for(_, _, _)
UserGroupSearch_for(req, text, k) ==
    IF k > Len(req.result.result) THEN ReturnNone
    ELSE IF Upper(req.result.result[k].name) = Upper(text)
         THEN ReturnEntry(req.result.result[1])
         ELSE UserGroupSearch_for(req, text, k + 1)

UserGroupSearch_check(self, req, text) ==
    IF ~Has(req, "result") THEN KeyError("result")
    ELSE IF ~Has(req.result, "count") THEN KeyError("count")
    ELSE IF req.result.count > 0
         THEN UserGroupSearch_for(req, text, 1)
         ELSE IF Has(req, "error")
              THEN AnsibleErrorMember("UserGroupSearch Error : ", req.error)
              ELSE ReturnNone

AccountCreate_acceptsZero(self, req) ==
    IF ~Has(req, "result") THEN KeyError("result")
    ELSE IF ~Has(req.result, "itemId") THEN KeyError("itemId")
    ELSE IF req.result.itemId >= 0
         THEN ReturnResult(req.result)
         ELSE AnsibleErrorReq("AccountCreate Error : ", req)

AccountCreate_check(self, req) ==
    IF ~Has(req, "result") THEN KeyError("result")
    ELSE IF ~Has(req.result, "itemId") THEN KeyError("itemId")
    ELSE IF req.result.itemId > 0
         THEN ReturnResult(req.result)
         ELSE AnsibleErrorReq("AccountCreate Error : ", req)

CategoryCreate_check(self, req) ==
    IF ~Has(req, "result") THEN KeyError("result")
    ELSE IF ~Has(req.result, "itemId") THEN KeyError("itemId")
    ELSE IF req.result.itemId > 0
         THEN ReturnResult(req.result)
         ELSE AnsibleErrorReq("CategoryCreate Error : ", req)

ClientCreate_check(self, req) ==
    IF ~Has(req, "result") THEN KeyError("result")
    ELSE IF ~Has(req.result, "itemId") THEN KeyError("itemId")
    ELSE IF req.result.itemId > 0
         THEN ReturnResult(req.result)
         ELSE AnsibleErrorReq("ClientCreate Error : ", req)

TagCreate_check(self, req) ==
    IF ~Has(req, "result") THEN KeyError("result")
    ELSE IF ~Has(req.result, "itemId") THEN KeyError("itemId")
    ELSE IF req.result.itemId > 0
         THEN ReturnResult(req.result)
         ELSE AnsibleErrorReq("TagCreate Error : ", req)

UserGroupCreate_check(self, req) ==
    IF ~Has(req, "result") THEN KeyError("result")
    ELSE IF ~Has(req.result, "itemId") THEN KeyError("itemId")
    ELSE IF req.result.itemId > 0
         THEN ReturnResult(req.result)
         ELSE AnsibleErrorReq("UserGroupCreate Error : ", req)

AccountDelete_check(self, req) ==
    IF ~Has(req, "result") THEN KeyError("result")
    ELSE IF ~Has(req.result, "resultCode") THEN KeyError("resultCode")
    ELSE IF req.result.resultCode = 0
         THEN ReturnResult(req.result)
         ELSE AnsibleErrorReq("AccountDelete Error : ", req)

CategoryDelete_acceptsPositive(self, req) ==
    IF ~Has(req, "result") THEN KeyError("result")
    ELSE IF ~Has(req.result, "resultCode") THEN KeyError("resultCode")
    ELSE IF req.result.resultCode >= 0
         THEN ReturnResult(req.result)
         ELSE AnsibleErrorReq("CategoryDelete Error : ", req)

CategoryDelete_check(self, req) ==
    IF ~Has(req, "result") THEN KeyError("result")
    ELSE IF ~Has(req.result, "resultCode") THEN KeyError("resultCode")
    ELSE IF req.result.resultCode = 0
         THEN ReturnResult(req.result)
         ELSE AnsibleErrorReq("CategoryDelete Error : ", req)

ClientDelete_check(self, req) ==
    IF ~Has(req, "result") THEN KeyError("result")
    ELSE IF ~Has(req.result, "resultCode") THEN KeyError("resultCode")
    ELSE IF req.result.resultCode = 0
         THEN ReturnResult(req.result)
         ELSE AnsibleErrorReq("ClientDelete Error : ", req)

TagDelete_check(self, req) ==
    IF ~Has(req, "result") THEN KeyError("result")
    ELSE IF ~Has(req.result, "resultCode") THEN KeyError("resultCode")
    ELSE IF req.result.resultCode = 0
         THEN ReturnResult(req.result)
         ELSE AnsibleErrorReq("TagDelete Error : ", req)

UserGroupDelete_check(self, req) ==
    IF ~Has(req, "result") THEN KeyError("result")
    ELSE IF ~Has(req.result, "resultCode") THEN KeyError("resultCode")
    ELSE IF req.result.resultCode = 0
         THEN ReturnResult(req.result)
         ELSE AnsibleErrorReq("UserGroupDelete Error : ", req)

Backup_check(self, req) ==
    IF Has(req, "result")
    THEN ReturnResult(req.result)
    ELSE AnsibleErrorReq("Backup Error : ", req)

\* ------------------------------------------------------------ the calls
\* A call is given to the instances of S; no call is running.
Enter(S, c) ==
    /\ pc = "idle"
    /\ S # {}
    /\ \A i \in S : started[i] < MaxCalls
    /\ active' = S
    /\ call' = c
    /\ started' = [i \in Inst |-> IF i \in S THEN started[i] + 1 ELSE started[i]]
    /\ pc' = "built"
    /\ UNCHANGED <<ctor, posted, posts, resp, outcome>>

\* self.rId += 1
IncrementId(S) == [i \in Inst |-> IF i \in S THEN [client[i] EXCEPT !.rId = @ + 1] ELSE client[i]]

AccountSearch(S, text, count, categoryId, clientId, matchAll) ==
    /\ Enter(S, [op |-> "AccountSearch", text |-> text, matchAll |-> matchAll])
    /\ data' = [i \in Inst |-> IF i \in S THEN AccountSearch_data(client[i], text, count, categoryId, clientId) ELSE NoData]
    /\ client' = IncrementId(S)

AccountViewpass(S, uId) ==
    /\ Enter(S, [op |-> "AccountViewpass"])
    /\ data' = [i \in Inst |-> IF i \in S THEN AccountViewpass_data(client[i], uId) ELSE NoData]
    /\ client' = IncrementId(S)

AccountCreate(S, name, categoryId, clientId, password, login, url, tags, notes, private, privateGroup, userGroupId, expireDate, parentId) ==
    /\ Enter(S, [op |-> "AccountCreate"])
    /\ data' = [i \in Inst |-> IF i \in S THEN AccountCreate_data(client[i], name, categoryId, clientId, password, login, url, tags, notes, private, privateGroup, userGroupId, expireDate, parentId) ELSE NoData]
    /\ client' = IncrementId(S)

AccountDelete_keepsId(S, uId) ==
    /\ Enter(S, [op |-> "AccountDelete"])
    /\ data' = [i \in Inst |-> IF i \in S THEN AccountDelete_data(client[i], uId) ELSE NoData]
    /\ client' = client

AccountDelete(S, uId) ==
    /\ Enter(S, [op |-> "AccountDelete"])
    /\ data' = [i \in Inst |-> IF i \in S THEN AccountDelete_data(client[i], uId) ELSE NoData]
    /\ client' = IncrementId(S)

AccountView(S, uId) ==
    /\ Enter(S, [op |-> "AccountView"])
    /\ data' = [i \in Inst |-> IF i \in S THEN AccountView_data(client[i], uId) ELSE NoData]
    /\ client' = IncrementId(S)

CategorySearch(S, text, count) ==
    /\ Enter(S, [op |-> "CategorySearch", text |-> text])
    /\ data' = [i \in Inst |-> IF i \in S THEN CategorySearch_data(client[i], text, count) ELSE NoData]
    /\ client' = IncrementId(S)

CategoryCreate(S, name, description) ==
    /\ Enter(S, [op |-> "CategoryCreate"])
    /\ data' = [i \in Inst |-> IF i \in S THEN CategoryCreate_data(client[i], name, description) ELSE NoData]
    /\ client' = IncrementId(S)

CategoryDelete(S, Id) ==
    /\ Enter(S, [op |-> "CategoryDelete"])
    /\ data' = [i \in Inst |-> IF i \in S THEN CategoryDelete_data(client[i], Id) ELSE NoData]
    /\ client' = IncrementId(S)

ClientSearch(S, text, count) ==
    /\ Enter(S, [op |-> "ClientSearch", text |-> text])
    /\ data' = [i \in Inst |-> IF i \in S THEN ClientSearch_data(client[i], text, count) ELSE NoData]
    /\ client' = IncrementId(S)

ClientCreate(S, name, description, Global) ==
    /\ Enter(S, [op |-> "ClientCreate"])
    /\ data' = [i \in Inst |-> IF i \in S THEN ClientCreate_data(client[i], name, description, Global) ELSE NoData]
    /\ client' = IncrementId(S)

ClientDelete(S, cId) ==
    /\ Enter(S, [op |-> "ClientDelete"])
    /\ data' = [i \in Inst |-> IF i \in S THEN ClientDelete_data(client[i], cId) ELSE NoData]
    /\ client' = IncrementId(S)

TagCreate(S, name) ==
    /\ Enter(S, [op |-> "TagCreate"])
    /\ data' = [i \in Inst |-> IF i \in S THEN TagCreate_data(client[i], name) ELSE NoData]
    /\ client' = IncrementId(S)

TagSearch(S, text, count) ==
    /\ Enter(S, [op |-> "TagSearch", text |-> text])
    /\ data' = [i \in Inst |-> IF i \in S THEN TagSearch_data(client[i], text, count) ELSE NoData]
    /\ client' = IncrementId(S)

TagDelete(S, tId) ==
    /\ Enter(S, [op |-> "TagDelete"])
    /\ data' = [i \in Inst |-> IF i \in S THEN TagDelete_data(client[i], tId) ELSE NoData]
    /\ client' = IncrementId(S)

UserGroupCreate(S, name, description) ==
    /\ Enter(S, [op |-> "UserGroupCreate"])
    /\ data' = [i \in Inst |-> IF i \in S THEN UserGroupCreate_data(client[i], name, description) ELSE NoData]
    /\ client' = IncrementId(S)

UserGroupSearch(S, text, count) ==
    /\ Enter(S, [op |-> "UserGroupSearch", text |-> text])
    /\ data' = [i \in Inst |-> IF i \in S THEN UserGroupSearch_data(client[i], text, count) ELSE NoData]
    /\ client' = IncrementId(S)

UserGroupDelete(S, ugId) ==
    /\ Enter(S, [op |-> "UserGroupDelete"])
    /\ data' = [i \in Inst |-> IF i \in S THEN UserGroupDelete_data(client[i], ugId) ELSE NoData]
    /\ client' = IncrementId(S)

Backup(S) ==
    /\ Enter(S, [op |-> "Backup"])
    /\ data' = [i \in Inst |-> IF i \in S THEN Backup_data(client[i]) ELSE NoData]
    /\ client' = IncrementId(S)

\* requests.post(self.API_URL, json = data) of every instance of the call;
\* the server answers with the same body
Post ==
    /\ pc = "built"
    /\ \E body \in Bodies(call.op) : resp' = body
    /\ posted' = [i \in Inst |-> IF i \in active
                                 THEN Append(posted[i], [url |-> client[i].API_URL, id |-> data[i].id])
                                 ELSE posted[i]]
    /\ posts' = [i \in Inst |-> IF i \in active THEN posts[i] + 1 ELSE posts[i]]
    /\ pc' = "sent"
    /\ UNCHANGED <<ctor, client, started, active, call, data, outcome>>

\* requests.post raises: the call ends with that exception
PostRaises ==
    /\ pc = "built"
    /\ posted' = [i \in Inst |-> IF i \in active
                                 THEN Append(posted[i], [url |-> client[i].API_URL, id |-> data[i].id])
                                 ELSE posted[i]]
    /\ posts' = [i \in Inst |-> IF i \in active THEN posts[i] + 1 ELSE posts[i]]
    /\ outcome' = [i \in Inst |-> IF i \in active THEN ConnectionError ELSE outcome[i]]
    /\ pc' = "done"
    /\ UNCHANGED <<ctor, client, started, active, call, data, resp>>

\* req = req.json() and what the method called does with it
Interpret(self, c, body) ==
    IF ~IsJson(body) THEN ValueError
    ELSE CASE c.op = "AccountSearch"   -> AccountSearch_check(self, body, c.text, c.matchAll)
           [] c.op = "AccountViewpass" -> AccountViewpass_check(self, body)
           [] c.op = "AccountCreate"   -> AccountCreate_check(self, body)
           [] c.op = "AccountDelete"   -> AccountDelete_check(self, body)
           [] c.op = "AccountView"     -> AccountView_check(self, body)
           [] c.op = "CategorySearch"  -> CategorySearch_check(self, body, c.text)
           [] c.op = "CategoryCreate"  -> CategoryCreate_check(self, body)
           [] c.op = "CategoryDelete"  -> CategoryDelete_check(self, body)
           [] c.op = "ClientSearch"    -> ClientSearch_check(self, body, c.text)
           [] c.op = "ClientCreate"    -> ClientCreate_check(self, body)
           [] c.op = "ClientDelete"    -> ClientDelete_check(self, body)
           [] c.op = "TagCreate"       -> TagCreate_check(self, body)
           [] c.op = "TagSearch"       -> TagSearch_check(self, body, c.text)
           [] c.op = "TagDelete"       -> TagDelete_check(self, body)
           [] c.op = "UserGroupCreate" -> UserGroupCreate_check(self, body)
           [] c.op = "UserGroupSearch" -> UserGroupSearch_check(self, body, c.text)
           [] c.op = "UserGroupDelete" -> UserGroupDelete_check(self, body)
           [] c.op = "Backup"          -> Backup_check(self, body)

\* a variant that posts the request again after an AnsibleError
Complete_retry ==
    /\ pc = "sent"
    /\ IF \E i \in active : Interpret(client[i], call, resp).kind = "AnsibleError"
       THEN /\ pc' = "built"
            /\ UNCHANGED outcome
       ELSE /\ outcome' = [i \in Inst |-> IF i \in active THEN Interpret(client[i], call, resp) ELSE outcome[i]]
            /\ pc' = "done"
    /\ UNCHANGED <<ctor, client, started, posted, posts, active, call, data, resp>>

\* the call returns or raises
Complete ==
    /\ pc = "sent"
    /\ outcome' = [i \in Inst |-> IF i \in active THEN Interpret(client[i], call, resp) ELSE outcome[i]]
    /\ pc' = "done"
    /\ UNCHANGED <<ctor, client, started, posted, posts, active, call, data, resp>>

\* the caller has taken the value returned or the exception raised
Return ==
    /\ pc = "done"
    /\ pc' = "idle"
    /\ active' = {}
    /\ call' = NoCall
    /\ data' = [i \in Inst |-> NoData]
    /\ resp' = NoResp
    /\ outcome' = [i \in Inst |-> NoOutcome]
    /\ posts' = [i \in Inst |-> 0]
    /\ UNCHANGED <<ctor, client, started, posted>>

Next ==
    \/ \E S \in SUBSET Inst :
         \/ \E text \in Names, matchAll \in {None, "True"} : AccountSearch(S, text, None, None, None, matchAll)
         \/ \E uId \in Ids : AccountViewpass(S, uId)
         \/ \E name \in Names, categoryId \in Ids, clientId \in Ids : AccountCreate(S, name, categoryId, clientId, "s3cret", "root", None, <<>>, None, None, None, None, None, None)
         \/ \E uId \in Ids : AccountDelete(S, uId)
         \/ \E uId \in Ids : AccountView(S, uId)
         \/ \E text \in Names : CategorySearch(S, text, None)
         \/ \E name \in Names : CategoryCreate(S, name, None)
         \/ \E Id \in Ids : CategoryDelete(S, Id)
         \/ \E text \in Names : ClientSearch(S, text, None)
         \/ \E name \in Names : ClientCreate(S, name, None, FALSE)
         \/ \E cId \in Ids : ClientDelete(S, cId)
         \/ \E name \in Names : TagCreate(S, name)
         \/ \E text \in Names : TagSearch(S, text, None)
         \/ \E tId \in Ids : TagDelete(S, tId)
         \/ \E name \in Names : UserGroupCreate(S, name, None)
         \/ \E text \in Names : UserGroupSearch(S, text, None)
         \/ \E ugId \in Ids : UserGroupDelete(S, ugId)
         \/ Backup(S)
    \/ Post
    \/ PostRaises
    \/ Complete
    \/ Return

Spec == Init /\ [][Next]_vars

\* ------------------------------------------------------------ properties
\* the call has ended on instance i
Ended(i) == pc = "done" /\ i \in active
\* the call has ended on instance i after a decoded answer
Answered(i) == Ended(i) /\ IsJson(resp)
\* a search that looks for one entry by its name
SearchByName == call.op \in SearchOps /\ (call.op = "AccountSearch" => call.matchAll = None)
\* the name matches the searched text the way the claims state it
NameMatches(op, name, text) ==
    IF op \in {"AccountSearch", "CategorySearch"} THEN name = text ELSE Upper(name) = Upper(text)
Failures == {"AnsibleError", "KeyError", "ValueError", "ConnectionError"}

\* C1: a search whose answer contains an `error` key ends in AnsibleError,
\* whatever else the answer contains.
C1_ErrorKeyEndsInAnsibleError ==
    \A i \in Inst :
        (Answered(i) /\ call.op \in SearchOps /\ Has(resp, "error"))
            => outcome[i].kind = "AnsibleError"

\* C2: an AnsibleError raised because of the answer carries the entire answer
\* as received, in every operation.
C2_FailureCarriesRawResponse ==
    \A i \in Inst :
        (Answered(i) /\ outcome[i].kind = "AnsibleError")
            => (outcome[i].carried = "req" /\ outcome[i].req = resp)

\* C3: a create operation whose answer has result.itemId returns the result
\* object unchanged exactly when itemId > 0 and ends in AnsibleError otherwise.
C3_CreateReturnsIffItemIdPositive ==
    \A i \in Inst :
        (Answered(i) /\ call.op \in CreateOps /\ Has(resp, "result") /\ Has(resp.result, "itemId"))
            => IF resp.result.itemId > 0
               THEN outcome[i] = ReturnResult(resp.result)
               ELSE outcome[i].kind = "AnsibleError"
C3_Witness ==
    \E i \in Inst :
        /\ Answered(i) /\ call.op = "AccountCreate"
        /\ Has(resp, "result") /\ Has(resp.result, "itemId") /\ resp.result.itemId = 0
        /\ outcome[i].kind = "AnsibleError"

\* C4: a delete operation whose answer has result.resultCode returns the
\* result object unchanged exactly when resultCode = 0 and ends in
\* AnsibleError for every other code.
C4_DeleteReturnsIffResultCodeZero ==
    \A i \in Inst :
        (Answered(i) /\ call.op \in DeleteOps /\ Has(resp, "result") /\ Has(resp.result, "resultCode"))
            => IF resp.result.resultCode = 0
               THEN outcome[i] = ReturnResult(resp.result)
               ELSE outcome[i].kind = "AnsibleError"
C4_Witness ==
    \E i \in Inst :
        /\ Answered(i) /\ call.op = "CategoryDelete"
        /\ Has(resp, "result") /\ Has(resp.result, "resultCode") /\ resp.result.resultCode = 1
        /\ outcome[i].kind = "AnsibleError"

\* C5: a call posts exactly one request, to API_URL, and then ends: it has no
\* outcome before its request was posted and never posts a second request.
C5_ExactlyOnePostPerCall ==
    \A i \in Inst :
        /\ posts[i] <= 1
        /\ outcome[i] # NoOutcome => posts[i] = 1
        /\ Ended(i) => /\ outcome[i] # NoOutcome
                       /\ posts[i] = 1
                       /\ posted[i][Len(posted[i])] = [url |-> ctor.API_URL, id |-> data[i].id]
C5_Witness ==
    \E i \in Inst : Answered(i) /\ outcome[i].kind = "AnsibleError" /\ Has(resp, "error") /\ posts[i] = 1

\* C6: rId is 1 plus the number of calls started on the instance, the n-th
\* call posts its request with id n, and a call that fails keeps its id used.
C6_RequestIdCountsCalls ==
    \A i \in Inst :
        /\ client[i].rId = 1 + started[i]
        /\ \A n \in 1..Len(posted[i]) : posted[i][n].id = n
        /\ (i \in active /\ pc # "idle") => data[i].id = started[i]
        /\ Len(posted[i]) = IF i \in active /\ pc = "built" THEN started[i] - 1 ELSE started[i]
C6_Witness ==
    \E i \in Inst :
        /\ Ended(i) /\ outcome[i].kind \in Failures
        /\ started[i] = 2 /\ client[i].rId = 3
        /\ posted[i][1].id = 1 /\ posted[i][2].id = 2

\* C7: no call changes API_KEY, API_URL or API_ACC_TOKPWD, and every request
\* carries the authToken (and tokenPass, where sent) given at construction.
C7_CredentialsUnchanged ==
    \A i \in Inst :
        /\ client[i].API_KEY = ctor.API_KEY
        /\ client[i].API_URL = ctor.API_URL
        /\ client[i].API_ACC_TOKPWD = ctor.API_ACC_TOKPWD
        /\ Has(data[i], "params") =>
              /\ data[i].params.authToken = ctor.API_KEY
              /\ Has(data[i].params, "tokenPass") => data[i].params.tokenPass = ctor.API_ACC_TOKPWD
C7_Witness ==
    \E i \in Inst :
        /\ Answered(i) /\ call.op = "AccountViewpass" /\ outcome[i].kind = "AnsibleError"
        /\ started[i] = 2
        /\ data[i].params.tokenPass = ctor.API_ACC_TOKPWD

\* C8: two instances with the same credentials and different call histories,
\* given the same call and the same answer, end with the same outcome, and
\* their requests differ only in the id.
C8_OutcomeIndependentOfHistory ==
    (pc = "done" /\ active = Inst)
        => /\ outcome[1] = outcome[2]
           /\ [data[1] EXCEPT !.id = 0] = [data[2] EXCEPT !.id = 0]
C8_Witness ==
    /\ pc = "done" /\ active = Inst
    /\ client[1].rId # client[2].rId
    /\ data[1].id # data[2].id
    /\ call.op = "ClientSearch"
    /\ outcome[1].kind = "return entry"

\* C9: the entry a search by name returns has a name that matches the
\* searched text.
C9_ReturnedEntryMatchesText ==
    \A i \in Inst :
        (Answered(i) /\ SearchByName /\ outcome[i].kind = "return entry")
            => NameMatches(call.op, outcome[i].entry.name, call.text)

\* C10: a search by name returns None when result.count = 0 and there is no
\* `error` key, and when result.count > 0 but no listed name matches.
C10_AbsentEntryIsNone ==
    \A i \in Inst :
        (Answered(i) /\ SearchByName /\ Has(resp, "result") /\ Has(resp.result, "count"))
            => /\ (resp.result.count = 0 /\ ~Has(resp, "error")) => outcome[i] = ReturnNone
               /\ (/\ resp.result.count > 0
                   /\ \A k \in 1..Len(resp.result.result) :
                         ~NameMatches(call.op, resp.result.result[k].name, call.text))
                      => outcome[i] = ReturnNone
C10_Witness ==
    \E i \in Inst :
        /\ Answered(i) /\ call.op = "TagSearch"
        /\ Has(resp, "result") /\ Has(resp.result, "count")
        /\ resp.result.count > 0 /\ Len(resp.result.result) > 0
        /\ \A k \in 1..Len(resp.result.result) :
              ~NameMatches(call.op, resp.result.result[k].name, call.text)
        /\ outcome[i] = ReturnNone

\* C11: AccountSearch with matchAll set returns the complete result list as
\* received (every entry, in order, unfiltered) when result.count > 0, and
\* None when result.count = 0 and there is no `error` key.
C11_MatchAllReturnsWholeList ==
    \A i \in Inst :
        (/\ Answered(i) /\ call.op = "AccountSearch" /\ call.matchAll # None
         /\ Has(resp, "result") /\ Has(resp.result, "count"))
            => /\ resp.result.count > 0 => outcome[i] = ReturnList(resp.result.result)
               /\ (resp.result.count = 0 /\ ~Has(resp, "error")) => outcome[i] = ReturnNone
C11_Witness ==
    \E i \in Inst :
        /\ Answered(i) /\ call.op = "AccountSearch" /\ call.matchAll # None
        /\ Has(resp, "result") /\ Has(resp.result, "count")
        /\ resp.result.count > 0 /\ Len(resp.result.result) = 2
        /\ \A k \in 1..Len(resp.result.result) : resp.result.result[k].name # call.text
        /\ outcome[i].kind = "return list" /\ outcome[i].list = resp.result.result
====
